---- MODULE Spec2Model ----
(***************************************************************************)
(* Model of the multi-collection hybrid retrieval and fusion engine of     *)
(* ClaudeRAG (src/claude_rag.py): search_milvus (exact lookup + vector     *)
(* search on one collection) and search_all_collections (fan-out over the  *)
(* collections the store enumerates, followed by the diversity             *)
(* interleaver), and of the same two methods of the local backend          *)
(* OllamaRAG (src/ollama_rag.py), which has no exact lookup and no         *)
(* dimension guard.  The vector store is an external collaborator; its     *)
(* content and its failures are fixed per collection in Init.              *)
(***************************************************************************)
EXTENDS Integers, Sequences, FiniteSets, TLC

VARIABLES backend, store, query_has_id, pc, order, idx, all_documents,
          search_summary, calls, result,
          qpc, nqueries, reachable, website, documents, llm, answer,
          last_usage, llm_calls, response,
          cmp, cmp_conf,
          s_schema, s_pc, s_fields, s_result,
          k_top, k_avail, k_pc, k_limit, k_counts,
          p_req, p_task, p_docs, p_tracked, p_count,
          site, max_pages, max_depth, visited_urls, to_visit, pages_crawled,
          crawl_pc, fetched, pages_stored, pages_failed

\* the state of one search_all_collections call
fvars == <<store, query_has_id, pc, order, idx, all_documents,
           search_summary, calls, result>>

\* the state of a RAG instance answering query_with_context calls
qvars == <<qpc, nqueries, reachable, website, documents, llm, answer,
           last_usage, llm_calls, response>>

\* the two source lists handed to calculate_confidence, and its two results
cvars == <<cmp, cmp_conf>>

\* one schema resolution of search_milvus: the schema, the fields, the outcome
svars == <<s_schema, s_pc, s_fields, s_result>>

\* the retrieval depth of one query_with_context call: top_k, the matching
\* rows each collection holds, the limit in use, the documents returned
kvars == <<k_top, k_avail, k_pc, k_limit, k_counts>>

\* /fetch_repo_prs: the requests, their per-PR tasks, the documents stored per
\* PR, the tracking records, each request's counters
pvars == <<p_req, p_task, p_docs, p_tracked, p_count>>

\* WebCrawler: the crawled site, the crawler's fields, the position of crawl,
\* the pages requested so far and the statistics of crawl
wvars == <<site, max_pages, max_depth, visited_urls, to_visit, pages_crawled,
           crawl_pc, fetched, pages_stored, pages_failed>>

\* the state of the other components
xvars == <<svars, kvars, pvars, wvars>>

vars == <<backend, fvars, qvars, cvars, xvars>>

----------------------------------------------------------------------------
(* Bounds *)

\* largest number of hits a vector search returns in the model (<= top_k)
MaxHits == 2

\* the L2 distance, in tenths, of a hit that is not identical to the query
FarDistance == 5

\* the L2 distances, in tenths, the store reports for a hit
Distances == {0, FarDistance}

\* largest number of collections in which a store call raises
MaxFaults == 1

----------------------------------------------------------------------------
(* Program constants *)

\* dimension of the embedder, all-MiniLM-L6-v2
ExpectedDim == 384

\* the dimension declared by the action-log collection's dummy vector field
OtherDim == 2

\* scores are kept as integers, in units of 0.0001
ScoreScale == 10000

\* the collections of the store, in lexicographic order of their names
Names == <<"github_prs", "jira_issues", "jira_tickets">>

NameSet == {Names[i] : i \in 1..Len(Names)}

TicketCollections == {"jira_tickets", "jira_issues"}

\* the places of a collection's processing where the store can raise
Faults == {"none", "load", "release", "exact", "search"}

Range(s) == {s[i] : i \in 1..Len(s)}

----------------------------------------------------------------------------
(* Schema resolution of search_milvus *)

StandardFields ==
    <<"id", "source_type", "source_id", "title", "content", "metadata", "url",
      "created_at", "embedding">>

\* the schema the store declares for a collection
AvailableFields(c) == StandardFields

PossibleContentFields ==
    <<"content", "title", "file_path", "action_type", "username", "repo_name">>

ResolveFields_CodebaseFirst(available) ==
    LET has(f) == f \in Range(available)
        chosen ==
          IF has("file_path") /\ has("content")
            THEN <<"file_path", "file_name", "language", "content",
                   "content_summary", "functions", "classes", "repo_name",
                   "github_url">>
          ELSE IF has("source_type")
            THEN <<"source_type", "source_id", "title", "content", "metadata", "url">>
          ELSE IF has("action_type") /\ has("endpoint")
            THEN <<"action_type", "endpoint", "parameters", "status",
                   "result_summary", "error_message", "metadata">>
          ELSE IF has("username") /\ has("persona_description")
            THEN <<"username", "display_name", "role", "persona_description",
                   "statistics", "patterns">>
          ELSE IF has("repo_name") /\ has("total_files_found")
            THEN <<"repo_name", "repo_path", "total_files_found",
                   "files_analyzed", "status", "processing_time_seconds">>
          ELSE SelectSeq(PossibleContentFields, LAMBDA f : has(f))
    IN  IF chosen # <<>> THEN chosen
        ELSE IF Len(available) > 1 THEN <<available[2]>> ELSE <<>>

ResolveFields(available) ==
    LET has(f) == f \in Range(available)
        chosen ==
          IF has("source_type")
            THEN <<"source_type", "source_id", "title", "content", "metadata", "url">>
          ELSE IF has("file_path") /\ has("content")
            THEN <<"file_path", "file_name", "language", "content",
                   "content_summary", "functions", "classes", "repo_name",
                   "github_url">>
          ELSE IF has("action_type") /\ has("endpoint")
            THEN <<"action_type", "endpoint", "parameters", "status",
                   "result_summary", "error_message", "metadata">>
          ELSE IF has("username") /\ has("persona_description")
            THEN <<"username", "display_name", "role", "persona_description",
                   "statistics", "patterns">>
          ELSE IF has("repo_name") /\ has("total_files_found")
            THEN <<"repo_name", "repo_path", "total_files_found",
                   "files_analyzed", "status", "processing_time_seconds">>
          ELSE SelectSeq(PossibleContentFields, LAMBDA f : has(f))
    IN  IF chosen # <<>> THEN chosen
        ELSE IF Len(available) > 1 THEN <<available[2]>> ELSE <<>>

----------------------------------------------------------------------------
(* Documents *)

\* round(1 / (1 + distance), 4) for a distance given in tenths
Score(d) == (2 * ScoreScale * 10 + (10 + d)) \div (2 * (10 + d))

ExactDoc(c) ==
    [score |-> ScoreScale, collection |-> c, match_type |-> "exact",
     source_id |-> 0]

SemanticDoc(c, i, d) ==
    [score |-> Score(d), collection |-> c, match_type |-> "semantic",
     source_id |-> i]

\* a document of OllamaRAG.search_milvus has no match_type key
OllamaDoc(c, i, d) ==
    [score |-> Score(d), collection |-> c, match_type |-> "none",
     source_id |-> i]

----------------------------------------------------------------------------
(* The store: what each collection holds and where it fails *)

\* the hit lists a vector search can return: nearest first, at most MaxHits
HitLists ==
    {h \in UNION {[1..n -> Distances] : n \in 0..MaxHits} :
        \A i \in 1..Len(h) - 1 : h[i] <= h[i + 1]}

CollectionStates ==
    [num_entities : {0, 2}, dim : {ExpectedDim, OtherDim}, fault : Faults,
     has_ticket : BOOLEAN, hits : HitLists]

\* a collection description that the store can present to a query: fields
\* that cannot influence the query are held at one value
ValidCollection(c, s, hasId) ==
    /\ s.num_entities = 0 => s.hits = <<>> /\ ~s.has_ticket
    /\ s.dim # ExpectedDim => s.hits = <<>> /\ ~s.has_ticket
    /\ (s.num_entities = 0 \/ s.dim # ExpectedDim)
          => s.fault \in {"none", "load", "release"}
    /\ s.has_ticket => c \in TicketCollections /\ hasId
    /\ s.fault = "exact" => c \in TicketCollections /\ hasId /\ ~s.has_ticket
    /\ s.fault \in {"load", "search", "release"} => s.hits = <<>>
    /\ s.fault = "load" => ~s.has_ticket

ValidStates(c, hasId) ==
    {s \in CollectionStates : ValidCollection(c, s, hasId)}

Faulty(st) == {c \in NameSet : st[c].fault # "none"}

Call(c, op, outcome) == [collection |-> c, op |-> op, outcome |-> outcome]

----------------------------------------------------------------------------
(* search_milvus: exact lookup, then vector search, on one collection *)

\* the exact lookup is tried on ticket collections for a query with an id
ExactApplicable(c, output_fields) ==
    /\ c \in TicketCollections
    /\ "source_id" \in Range(output_fields)
    /\ query_has_id

\* what collection.query(expr = source_id == ticket_id, limit = 1) does
ExactOutcome(c) ==
    IF store[c].fault = "exact" THEN "raised"
    ELSE IF store[c].has_ticket THEN "hit" ELSE "miss"

ExactMatchFound_AnyReturn(outcome) == outcome \in {"hit", "miss"}

\* exact_match_found is set when the lookup returned a non-empty result
ExactMatchFound(outcome) == outcome = "hit"

NeedsSemantic_Always(exact_match_found) == TRUE

\* the vector search runs only if no exact match was found
NeedsSemantic(exact_match_found) == ~exact_match_found

SearchMilvus(c) ==
    LET s == store[c]
        output_fields == ResolveFields(AvailableFields(c))
        tryExact == ExactApplicable(c, output_fields)
        outcome == IF tryExact THEN ExactOutcome(c) ELSE "skipped"
        found == tryExact /\ ExactMatchFound(outcome)
        exactDocs == IF outcome = "hit" THEN <<ExactDoc(c)>> ELSE <<>>
        doSearch == NeedsSemantic(found)
        searchRaised == doSearch /\ (s.fault = "search" \/ s.dim # ExpectedDim)
        semDocs == IF doSearch /\ ~searchRaised
                     THEN [i \in 1..Len(s.hits) |-> SemanticDoc(c, i, s.hits[i])]
                     ELSE <<>>
        releaseRaised == ~searchRaised /\ s.fault = "release"
    IN  [docs  |-> IF searchRaised \/ releaseRaised THEN <<>>
                   ELSE exactDocs \o semDocs,
         calls |-> (IF tryExact THEN {Call(c, "query", outcome)} ELSE {})
                   \cup (IF doSearch
                           THEN {Call(c, "search",
                                      IF searchRaised THEN "raised" ELSE "ok")}
                           ELSE {})
                   \cup (IF searchRaised THEN {}
                         ELSE {Call(c, "release",
                                    IF releaseRaised THEN "raised" ELSE "ok")})]

\* OllamaRAG.search_milvus: vector search only
OllamaSearchMilvus(c) ==
    LET s == store[c]
        searchRaised == s.fault = "search" \/ s.dim # ExpectedDim
        releaseRaised == ~searchRaised /\ s.fault = "release"
    IN  [docs  |-> IF searchRaised \/ releaseRaised THEN <<>>
                   ELSE [i \in 1..Len(s.hits) |-> OllamaDoc(c, i, s.hits[i])],
         calls |-> {Call(c, "search", IF searchRaised THEN "raised" ELSE "ok")}
                   \cup (IF searchRaised THEN {}
                         ELSE {Call(c, "release",
                                    IF releaseRaised THEN "raised" ELSE "ok")})]

----------------------------------------------------------------------------
(* The diversity interleaver of search_all_collections *)

RECURSIVE InsertByScore(_, _)
\* insert d after every element whose score is >= d.score (stable, descending)
InsertByScore(sorted, d) ==
    IF sorted = <<>> THEN <<d>>
    ELSE IF Head(sorted).score >= d.score
           THEN <<Head(sorted)>> \o InsertByScore(Tail(sorted), d)
           ELSE <<d>> \o sorted

RECURSIVE SortByScore(_)
\* list.sort(key = score, reverse = True): stable
SortByScore(docs) ==
    IF docs = <<>> THEN <<>>
    ELSE InsertByScore(SortByScore(SubSeq(docs, 1, Len(docs) - 1)),
                       docs[Len(docs)])

ExactMatches(docs) == SelectSeq(docs, LAMBDA d : d.match_type = "exact")

SemanticDocs(docs) == SelectSeq(docs, LAMBDA d : d.match_type # "exact")

\* docs_by_collection[c], after the per-collection sort
DocsByCollection(sem, c) ==
    SortByScore(SelectSeq(sem, LAMBDA d : d.collection = c))

SortedKeys_Reversed(sem) ==
    SelectSeq(<<Names[3], Names[2], Names[1]>>,
              LAMBDA c : \E i \in 1..Len(sem) : sem[i].collection = c)

\* sorted(docs_by_collection.keys())
SortedKeys(sem) ==
    SelectSeq(Names, LAMBDA c : \E i \in 1..Len(sem) : sem[i].collection = c)

RECURSIVE MaxLen(_, _)
MaxLen(sem, keys) ==
    IF keys = <<>> THEN 0
    ELSE LET n == Len(DocsByCollection(sem, Head(keys)))
             m == MaxLen(sem, Tail(keys))
         IN  IF n > m THEN n ELSE m

RECURSIVE Round(_, _, _)
\* the inner loop: one pass over the sorted collection names at rank i
Round(sem, keys, i) ==
    IF keys = <<>> THEN <<>>
    ELSE LET g == DocsByCollection(sem, Head(keys))
         IN  (IF i <= Len(g) THEN <<g[i]>> ELSE <<>>)
             \o Round(sem, Tail(keys), i)

RECURSIVE Rounds(_, _, _, _)
Rounds(sem, keys, i, max_docs) ==
    IF i > max_docs THEN <<>>
    ELSE Round(sem, keys, i) \o Rounds(sem, keys, i + 1, max_docs)

RECURSIVE Concatenated(_, _)
Concatenated(sem, keys) ==
    IF keys = <<>> THEN <<>>
    ELSE DocsByCollection(sem, Head(keys)) \o Concatenated(sem, Tail(keys))

SemanticInterleaved_Grouped(sem) == Concatenated(sem, SortedKeys(sem))

SemanticInterleaved(sem) ==
    Rounds(sem, SortedKeys(sem), 1, MaxLen(sem, SortedKeys(sem)))

Combine_SemanticFirst(exact, semantic) == semantic \o exact

\* diverse_documents = exact_matches + semantic_interleaved
Combine(exact, semantic) == exact \o semantic

DiverseDocuments(docs) ==
    Combine(SortByScore(ExactMatches(docs)),
            SemanticInterleaved(SemanticDocs(docs)))

\* OllamaRAG: every document is grouped by collection and interleaved
OllamaDiverseDocuments(docs) == SemanticInterleaved(docs)

----------------------------------------------------------------------------
(* The fan-out of search_all_collections *)

Entry(c, status, n) == [collection |-> c, status |-> status, n |-> n]

\* the orders in which utility.list_collections() can enumerate the store
Enumerations ==
    {o \in [1..Len(Names) -> NameSet] :
        \A i, j \in 1..Len(Names) : o[i] = o[j] => i = j}

IsEmpty_Never(num_entities) == FALSE

\* the empty-collection guard
IsEmpty(num_entities) == num_entities = 0

\* the dimension guard: embedding_dim and embedding_dim != expected_dim
IsIncompatible(embedding_dim) ==
    embedding_dim # 0 /\ embedding_dim # ExpectedDim

NextAfterError_Break(i, n) == n + 1

\* the except clause ends the iteration; the for loop goes on
NextAfterError(i, n) == i + 1

\* a fresh RAG instance: __init__ sets no _last_usage attribute
NoUsage == [set |-> FALSE]

\* no query_with_context call is running on the instance
QueryIdle ==
    /\ qpc = "idle"
    /\ nqueries = 0
    /\ reachable = TRUE
    /\ website = FALSE
    /\ documents = <<>>
    /\ llm = [fails |-> FALSE, text |-> <<>>]
    /\ answer = [kind |-> "none"]
    /\ last_usage = NoUsage
    /\ llm_calls = 0
    /\ response = [kind |-> "none"]

\* no calculate_confidence comparison is set up
CompareIdle ==
    /\ cmp = <<>>
    /\ cmp_conf = <<>>

\* no schema resolution is set up
SchemaIdle ==
    /\ s_schema = <<>>
    /\ s_pc = "off"
    /\ s_fields = <<>>
    /\ s_result = [status |-> "none"]

\* no retrieval depth is being followed
TopKIdle ==
    /\ k_top = 0
    /\ k_avail = <<>>
    /\ k_pc = "off"
    /\ k_limit = 0
    /\ k_counts = <<>>

\* no /fetch_repo_prs request has been made
FetchIdle ==
    /\ p_req = <<>>
    /\ p_task = <<>>
    /\ p_docs = <<>>
    /\ p_tracked = {}
    /\ p_count = <<>>

\* no crawler has been constructed
CrawlIdle ==
    /\ site = <<>>
    /\ max_pages = 0
    /\ max_depth = 0
    /\ visited_urls = {}
    /\ to_visit = <<>>
    /\ pages_crawled = 0
    /\ crawl_pc = "off"
    /\ fetched = <<>>
    /\ pages_stored = 0
    /\ pages_failed = 0

ExtraIdle ==
    /\ SchemaIdle
    /\ TopKIdle
    /\ FetchIdle
    /\ CrawlIdle

Init ==
    /\ backend \in {"claude", "ollama"}
    /\ query_has_id \in (IF backend = "claude" THEN BOOLEAN ELSE {FALSE})
    /\ \E a \in ValidStates(Names[1], query_has_id),
          b \in ValidStates(Names[2], query_has_id),
          c \in ValidStates(Names[3], query_has_id) :
          LET st == [n \in NameSet |->
                       IF n = Names[1] THEN a ELSE IF n = Names[2] THEN b ELSE c]
          IN  /\ Cardinality(Faulty(st)) <= MaxFaults
              /\ store = st
    /\ pc = "idle"
    /\ order = <<>>
    /\ idx = 0
    /\ all_documents = <<>>
    /\ search_summary = <<>>
    /\ calls = {}
    /\ result = <<>>
    /\ QueryIdle
    /\ CompareIdle
    /\ ExtraIdle

\* the call starts: connect, enumerate the collections, empty accumulators
StartFanOut ==
    /\ pc = "idle"
    /\ order' \in Enumerations
    /\ idx' = 1
    /\ pc' = "loop"
    /\ UNCHANGED <<xvars, qvars, cvars, backend, store, query_has_id, all_documents, search_summary,
                   calls, result>>

InLoop == pc = "loop" /\ idx <= Len(order)

\* Collection(name), load() or num_entities raises (both backends)
CollectionError ==
    /\ InLoop
    /\ LET c == order[idx] IN
        /\ store[c].fault = "load"
        /\ search_summary' = Append(search_summary, Entry(c, "ERROR", 0))
        /\ calls' = calls \cup {Call(c, "load", "raised")}
    /\ idx' = NextAfterError(idx, Len(order))
    /\ UNCHANGED <<xvars, qvars, cvars, backend, store, query_has_id, pc, order, all_documents, result>>

\* the summary entry of a skipped collection, then collection.release()
Skip(c, status) ==
    LET failed == store[c].fault = "release" IN
    /\ search_summary' =
          Append(search_summary, Entry(c, status, 0))
          \o (IF failed THEN <<Entry(c, "ERROR", 0)>> ELSE <<>>)
    /\ calls' = calls \cup {Call(c, "load", "ok"),
                             Call(c, "release",
                                  IF failed THEN "raised" ELSE "ok")}
    /\ idx' = IF failed THEN NextAfterError(idx, Len(order)) ELSE idx + 1
    /\ UNCHANGED <<xvars, qvars, cvars, backend, store, query_has_id, pc, order, all_documents, result>>

\* the empty-collection guard (both backends)
SkipEmpty ==
    /\ InLoop
    /\ store[order[idx]].fault # "load"
    /\ IsEmpty(store[order[idx]].num_entities)
    /\ Skip(order[idx], "EMPTY")

SkipIncompatible ==
    /\ InLoop
    /\ backend = "claude"
    /\ store[order[idx]].fault # "load"
    /\ ~IsEmpty(store[order[idx]].num_entities)
    /\ IsIncompatible(store[order[idx]].dim)
    /\ Skip(order[idx], "INCOMPATIBLE")

SearchCollection ==
    /\ InLoop
    /\ backend = "claude"
    /\ store[order[idx]].fault # "load"
    /\ ~IsEmpty(store[order[idx]].num_entities)
    /\ ~IsIncompatible(store[order[idx]].dim)
    /\ LET c == order[idx]
           r == SearchMilvus(c)
       IN  /\ all_documents' = all_documents \o r.docs
           /\ search_summary' =
                 Append(search_summary,
                        IF r.docs # <<>> THEN Entry(c, "FOUND", Len(r.docs))
                        ELSE Entry(c, "NONE", 0))
           /\ calls' = calls \cup {Call(c, "load", "ok")} \cup r.calls
    /\ idx' = idx + 1
    /\ UNCHANGED <<xvars, qvars, cvars, backend, store, query_has_id, pc, order, result>>

\* OllamaRAG: the collection has data, search it
OllamaSearchCollection ==
    /\ InLoop
    /\ backend = "ollama"
    /\ store[order[idx]].fault # "load"
    /\ ~IsEmpty(store[order[idx]].num_entities)
    /\ LET c == order[idx]
           r == OllamaSearchMilvus(c)
       IN  /\ all_documents' = all_documents \o r.docs
           /\ search_summary' =
                 Append(search_summary,
                        IF r.docs # <<>> THEN Entry(c, "FOUND", Len(r.docs))
                        ELSE Entry(c, "NONE", 0))
           /\ calls' = calls \cup {Call(c, "load", "ok")} \cup r.calls
    /\ idx' = idx + 1
    /\ UNCHANGED <<xvars, qvars, cvars, backend, store, query_has_id, pc, order, result>>

\* OllamaRAG, after the loop: group, sort, interleave, return
OllamaInterleave ==
    /\ pc = "loop"
    /\ backend = "ollama"
    /\ idx > Len(order)
    /\ result' = OllamaDiverseDocuments(all_documents)
    /\ pc' = "done"
    /\ UNCHANGED <<xvars, qvars, cvars, backend, store, query_has_id, order, idx, all_documents,
                   search_summary, calls>>

\* after the loop: partition, sort, interleave, combine, return
Interleave ==
    /\ pc = "loop"
    /\ backend = "claude"
    /\ idx > Len(order)
    /\ result' = DiverseDocuments(all_documents)
    /\ pc' = "done"
    /\ UNCHANGED <<xvars, qvars, cvars, backend, store, query_has_id, order, idx, all_documents,
                   search_summary, calls>>

Next ==
    \/ StartFanOut
    \/ CollectionError
    \/ SkipEmpty
    \/ SkipIncompatible
    \/ SearchCollection
    \/ Interleave
    \/ OllamaSearchCollection
    \/ OllamaInterleave

Spec == Init /\ [][Next]_vars

----------------------------------------------------------------------------
(* Vocabulary of the properties *)

EntriesOf(c) == SelectSeq(search_summary, LAMBDA e : e.collection = c)

HasEntry(c, status) ==
    \E i \in 1..Len(search_summary) :
        search_summary[i] = Entry(c, status, search_summary[i].n)

DocsOf(docs, c) == SelectSeq(docs, LAMBDA d : d.collection = c)

\* the part of the returned sequence that follows the exact matches
PostExact == SubSeq(result, Len(ExactMatches(all_documents)) + 1, Len(result))

SemanticCollections ==
    {d.collection : d \in Range(SemanticDocs(all_documents))}

\* what the store holds for the query in a collection whose calls all succeed
StoreDocs(c) ==
    IF store[c].num_entities = 0 \/ store[c].dim # ExpectedDim THEN {}
    ELSE IF backend = "ollama"
      THEN {OllamaDoc(c, i, store[c].hits[i]) : i \in 1..Len(store[c].hits)}
    ELSE IF c \in TicketCollections /\ query_has_id /\ store[c].has_ticket
      THEN {ExactDoc(c)}
    ELSE {SemanticDoc(c, i, store[c].hits[i]) : i \in 1..Len(store[c].hits)}

----------------------------------------------------------------------------
(* C1: in the returned sequence every document with match_type exact comes  *)
(* before every document with match_type semantic.                         *)
C1_ExactBeforeSemantic ==
    (pc = "done" /\ backend = "claude") =>
      \A i, j \in 1..Len(result) :
          result[i].match_type = "exact" /\ result[j].match_type = "semantic"
            => i < j

\* an exact match gathered after a semantic document of the same score
C1_Witness ==
    /\ pc = "done"
    /\ backend = "claude"
    /\ \E i, j \in 1..Len(all_documents) :
          /\ i < j
          /\ all_documents[i].match_type = "semantic"
          /\ all_documents[j].match_type = "exact"
          /\ all_documents[i].score >= all_documents[j].score
    /\ result # <<>>

(* C2: when the semantic documents come from k >= 2 collections, the first  *)
(* k items after the exact matches hold one document of each of them.      *)
C2_Diversity ==
    pc = "done" =>
      LET k == Cardinality(SemanticCollections) IN
        k >= 2 =>
          /\ Len(PostExact) >= k
          /\ {PostExact[i].collection : i \in 1..k} = SemanticCollections

\* three collections with semantic documents, the first of them with two
C2_Witness ==
    /\ pc = "done"
    /\ Cardinality(SemanticCollections) = 3
    /\ Len(DocsOf(result, Names[1])) >= 2
    /\ Len(ExactMatches(result)) = 0

(* C3: when the processing of one collection raises, every document the    *)
(* store holds for the query in each healthy collection is in the returned *)
(* sequence, and every enumerated collection is visited.                   *)
C3_GracefulDegradation ==
    (pc = "done" /\ \E x \in calls : x.outcome = "raised") =>
      /\ \A c \in NameSet \ Faulty(store) :
            StoreDocs(c) \subseteq Range(result)
      /\ \A c \in NameSet : \E x \in calls : x.collection = c /\ x.op = "load"

\* the first collection enumerated raises, a later one contributes documents
C3_Witness ==
    /\ pc = "done"
    /\ HasEntry(order[1], "ERROR")
    /\ \E c \in NameSet \ Faulty(store) :
          /\ StoreDocs(c) # {}
          /\ StoreDocs(c) \subseteq Range(result)

(* C4: whenever a store call raises while the fan-out processes a          *)
(* collection, the summary of that call holds an ERROR entry for it.       *)
C4_ErrorEntryForEveryFailure ==
    (pc = "done" /\ backend = "claude") =>
      \A x \in calls : x.outcome = "raised" => HasEntry(x.collection, "ERROR")

(* C5: a collection whose declared dimension differs from the embedder's   *)
(* contributes no document and its summary entries are INCOMPATIBLE only.  *)
C5_IncompatibleOnly ==
    (pc = "done" /\ backend = "claude") =>
      \A c \in NameSet :
          store[c].dim # ExpectedDim =>
            /\ DocsOf(result, c) = <<>>
            /\ HasEntry(c, "INCOMPATIBLE")
            /\ \A i \in 1..Len(EntriesOf(c)) :
                  EntriesOf(c)[i].status = "INCOMPATIBLE"

(* C6: on a ticket collection whose exact lookup returns a hit, search_milvus *)
(* yields at most one document, exact with score 1.0, and issues no vector *)
(* search; no collection contributes both exact and semantic documents.    *)
C6_ExactHitOnly ==
    \A c \in NameSet :
        /\ Call(c, "query", "hit") \in calls =>
              /\ \A x \in calls : ~(x.collection = c /\ x.op = "search")
              /\ Len(DocsOf(all_documents, c)) <= 1
              /\ \A d \in Range(DocsOf(all_documents, c)) :
                    d.match_type = "exact" /\ d.score = ScoreScale
        /\ ~ \E d, e \in Range(DocsOf(all_documents, c)) :
                d.match_type = "exact" /\ e.match_type = "semantic"

\* the lookup hit in a collection that also has semantic hits for the query
C6_Witness ==
    \E c \in NameSet :
        /\ Call(c, "query", "hit") \in calls
        /\ store[c].hits # <<>>
        /\ DocsOf(all_documents, c) = <<ExactDoc(c)>>

(* C7: when the exact lookup raises or returns nothing, search_milvus does *)
(* not fail: it issues the vector search on the same collection and        *)
(* returns that search's documents, all semantic.                          *)
C7_FallThroughToSemantic ==
    \A c \in NameSet :
        (Call(c, "query", "raised") \in calls
           \/ Call(c, "query", "miss") \in calls) =>
          /\ \E x \in calls : x.collection = c /\ x.op = "search"
          /\ ~HasEntry(c, "ERROR")
          /\ \A d \in Range(DocsOf(all_documents, c)) : d.match_type = "semantic"
          /\ (Call(c, "search", "ok") \in calls
                /\ Call(c, "release", "ok") \in calls) =>
                Range(DocsOf(all_documents, c)) = StoreDocs(c)

\* one lookup raised, another returned nothing; both yielded semantic hits
C7_Witness ==
    \E c1, c2 \in NameSet :
        /\ Call(c1, "query", "raised") \in calls
        /\ Call(c2, "query", "miss") \in calls
        /\ DocsOf(all_documents, c1) # <<>>
        /\ DocsOf(all_documents, c2) # <<>>

(* C8: a collection reporting zero entities is never searched, contributes *)
(* no document and is reported EMPTY; the documents of the other           *)
(* collections are still returned.                                         *)
C8_EmptySkipped ==
    pc = "done" =>
      \A c \in NameSet :
          (store[c].num_entities = 0 /\ store[c].fault # "load") =>
            /\ \A x \in calls :
                  x.collection = c => x.op \notin {"query", "search"}
            /\ DocsOf(result, c) = <<>>
            /\ HasEntry(c, "EMPTY")
            /\ \A o \in NameSet \ Faulty(store) :
                  StoreDocs(o) \subseteq Range(result)

\* one empty collection between two collections that contribute documents
C8_Witness ==
    /\ pc = "done"
    /\ \E c \in NameSet :
          /\ store[c].num_entities = 0
          /\ HasEntry(c, "EMPTY")
          /\ \A o \in NameSet \ {c} : DocsOf(result, o) # <<>>

(* C9: after a fan-out the summary holds exactly one entry for each        *)
(* enumerated collection.                                                  *)
C9_OneEntryPerCollection ==
    (pc = "done" /\ backend = "claude") => \A c \in NameSet : Len(EntriesOf(c)) = 1

\* what a collection contributes to all_documents, whatever its position
Contribution(c) ==
    IF \/ store[c].fault = "load"
       \/ IsEmpty(store[c].num_entities)
       \/ IsIncompatible(store[c].dim)
      THEN <<>>
      ELSE SearchMilvus(c).docs

RECURSIVE Gathered(_)
Gathered(enumeration) ==
    IF enumeration = <<>> THEN <<>>
    ELSE Contribution(Head(enumeration)) \o Gathered(Tail(enumeration))

(* C10: the returned sequence does not depend on the enumeration order: it *)
(* equals the sequence returned for the lexicographic enumeration.         *)
C10_OrderIndependent ==
    (pc = "done" /\ backend = "claude") => result = DiverseDocuments(Gathered(Names))


\* ---------------------------------------------------------------------
\* Confidence values.  A Python float is a record: kind "fin" with the
\* value in units of 0.0001, or "nan", or "inf"; None is its own value.
\* ---------------------------------------------------------------------
Fin(n) == [k |-> "fin", n |-> n]

NaN == [k |-> "nan", n |-> 0]

PosInf == [k |-> "inf", n |-> 0]

None == [k |-> "none", n |-> 0]

Min(a, b) == IF a <= b THEN a ELSE b

\* round(x, 3): a finite value goes to the nearest 0.001, nan and inf stay
Round3(x) ==
    IF x.k # "fin" THEN x
    ELSE IF x.n >= 0 THEN Fin(((x.n + 5) \div 10) * 10)
    ELSE Fin(0 - (((0 - x.n) + 5) \div 10) * 10)

\* x >= t for a float x and a threshold t; every comparison with nan is False
AtLeast(x, t) == x.k = "inf" \/ (x.k = "fin" /\ x.n >= t)

VeryHighAt == 8000

HighAt == 6500

MediumAt == 5000

LowAt == 3000

\* the if/elif chain that names a level, applied to the float it is given
ConfidenceLevel(x) ==
    IF AtLeast(x, VeryHighAt) THEN "Very High"
    ELSE IF AtLeast(x, HighAt) THEN "High"
    ELSE IF AtLeast(x, MediumAt) THEN "Medium"
    ELSE IF AtLeast(x, LowAt) THEN "Low"
    ELSE "Very Low"

\* ---------------------------------------------------------------------
\* calculate_confidence(sources, num_documents).  The total is the exact
\* ratio TotalN / TotalD; the code rounds it only in the value it returns.
\* ---------------------------------------------------------------------
RECURSIVE SumScores(_)
SumScores(sources) ==
    IF sources = <<>> THEN 0
    ELSE sources[1].score + SumScores(Tail(sources))

\* the scraped page as a source: score 1.0, source_type only, no collection
WebsiteContent ==
    [score |-> ScoreScale, source_type |-> "website", match_type |-> "none",
     source_id |-> 0]

\* s.get('collection', s.get('source_type', ''))
SourceKey(s) ==
    IF "collection" \in DOMAIN s THEN s.collection ELSE s.source_type

UniqueSources(sources) ==
    Cardinality({SourceKey(sources[i]) : i \in 1..Len(sources)})

HighQualityAbove == 8000

HighQualityCount(sources) ==
    Cardinality({i \in 1..Len(sources) : sources[i].score > HighQualityAbove})

QuantityCap == 10

DiversityCap == 3

HighQualityCap == 3

\* the common denominator of the four factors: 7.5 * ScoreScale * len(sources)
TotalD(sources) == 75000 * Len(sources)

\* avg_score * 0.4
SourceQualityN(sources) == 3 * SumScores(sources)

\* min(num_documents / 10.0, 1.0) * 0.2
QuantityN(sources, num_documents) ==
    1500 * Len(sources) * Min(num_documents, QuantityCap)

\* min(unique_sources / 3.0, 1.0) * 0.2
DiversityN(sources) ==
    5000 * Len(sources) * Min(UniqueSources(sources), DiversityCap)

HighQualityN_Negated(sources) ==
    0 - 5000 * Len(sources) * Min(HighQualityCount(sources), HighQualityCap)

\* min(high_quality_count / 3.0, 1.0) * 0.2
HighQualityN(sources) ==
    5000 * Len(sources) * Min(HighQualityCount(sources), HighQualityCap)

TotalN(sources, num_documents) ==
    SourceQualityN(sources) + QuantityN(sources, num_documents)
    + DiversityN(sources) + HighQualityN(sources)

\* the thresholds are multiples of 0.05
LevelUnit == 500

\* round(n / d, 3) of a non-negative ratio
RoundRatio3(n, d) == Fin(((2000 * n + d) \div (2 * d)) * 10)

\* the level chain of calculate_confidence, on the unrounded total
RatioLevel(n, d) ==
    LET AtLeastRatio(t) ==
            (ScoreScale \div LevelUnit) * n >= (t \div LevelUnit) * d
    IN  IF AtLeastRatio(VeryHighAt) THEN "Very High"
        ELSE IF AtLeastRatio(HighAt) THEN "High"
        ELSE IF AtLeastRatio(MediumAt) THEN "Medium"
        ELSE IF AtLeastRatio(LowAt) THEN "Low"
        ELSE "Very Low"

CalculateConfidence(sources, num_documents) ==
    IF sources = <<>>
    THEN [score |-> Fin(0), level |-> "No Data", factors |-> <<>>]
    ELSE LET d == TotalD(sources) IN
         [score |-> RoundRatio3(TotalN(sources, num_documents), d),
          level |-> RatioLevel(TotalN(sources, num_documents), d),
          factors |->
             [source_quality |->
                 RoundRatio3(SumScores(sources), ScoreScale * Len(sources)),
              source_quantity |-> num_documents,
              source_diversity |-> UniqueSources(sources),
              high_quality_sources |-> HighQualityCount(sources)]]

\* ---------------------------------------------------------------------
\* The completion text and the ANSWER_CONFIDENCE marker.  A text is the
\* sequence of its lines; a line records whether it contains the marker
\* and, if so, what follows the marker on that line.
\* ---------------------------------------------------------------------
PlainLine == [marker |-> FALSE, rest |-> "The fix is in PR 42."]

BlankLine == [marker |-> FALSE, rest |-> ""]

MarkerLine(rest) == [marker |-> TRUE, rest |-> rest]

\* what a model can write after the marker
MarkerValues ==
    {" 0.73", " 0.7996", " 1.5", " -0.2", " nan", " inf", " high", ""}

CompletionTexts ==
    {<<PlainLine>>}
    \cup {<<PlainLine, MarkerLine(v)>> : v \in MarkerValues}
    \cup {<<MarkerLine(" high"), PlainLine, MarkerLine(" 0.73")>>}

\* what the LLM collaborator does in one call: raise, or return a text
Completions ==
    {[fails |-> TRUE, text |-> <<>>]}
    \cup {[fails |-> FALSE, text |-> t] : t \in CompletionTexts}

\* str.strip() on what follows the marker
Strip(str) ==
    CASE str = " 0.73" -> "0.73"
      [] str = " 0.7996" -> "0.7996"
      [] str = " 1.5" -> "1.5"
      [] str = " -0.2" -> "-0.2"
      [] str = " nan" -> "nan"
      [] str = " inf" -> "inf"
      [] str = " high" -> "high"
      [] OTHER -> str

ValueError == [k |-> "error", n |-> 0]

\* float(str): a float, or ValueError
ParseFloat(str) ==
    CASE str = "0.73" -> Fin(7300)
      [] str = "0.7996" -> Fin(7996)
      [] str = "1.5" -> Fin(15000)
      [] str = "-0.2" -> Fin(0 - 2000)
      [] str = "nan" -> NaN
      [] str = "inf" -> PosInf
      [] OTHER -> ValueError

\* "ANSWER_CONFIDENCE:" in answer
HasMarker(lines) == \E i \in 1..Len(lines) : lines[i].marker

\* [line for line in answer.split('\n') if 'ANSWER_CONFIDENCE:' in line][0]
ConfidenceLine(lines) == SelectSeq(lines, LAMBDA l : l.marker)[1]

\* answer.replace(confidence_line, ''): the line's text goes, its newline stays
ReplaceLine(lines, line) ==
    [i \in 1..Len(lines) |-> IF lines[i] = line THEN BlankLine ELSE lines[i]]

RECURSIVE StripLeading(_)
StripLeading(lines) ==
    IF lines # <<>> /\ lines[1] = BlankLine
    THEN StripLeading(Tail(lines)) ELSE lines

RECURSIVE StripTrailing(_)
StripTrailing(lines) ==
    IF lines # <<>> /\ lines[Len(lines)] = BlankLine
    THEN StripTrailing(SubSeq(lines, 1, Len(lines) - 1)) ELSE lines

\* str.strip() on the whole answer
StripLines(lines) == StripTrailing(StripLeading(lines))

ParsedOrNone_Zero(v) == IF v = ValueError THEN Fin(0) ELSE v

\* the try/except around the parse: a ValueError leaves answer_confidence None
ParsedOrNone(v) == IF v = ValueError THEN None ELSE v

\* the marker block: the self-reported confidence and the cleaned answer
ParseAnswer(lines) ==
    IF ~HasMarker(lines) THEN [answer_confidence |-> None, lines |-> lines]
    ELSE LET line == ConfidenceLine(lines)
             v == ParseFloat(Strip(line.rest))
         IN  IF v = ValueError
             THEN [answer_confidence |-> ParsedOrNone(v), lines |-> lines]
             ELSE [answer_confidence |-> ParsedOrNone(v),
                   lines |-> StripLines(ReplaceLine(lines, line))]

\* "\n\n---\n*Responded in ...*" appended by ask_claude
Footer ==
    <<BlankLine, [marker |-> FALSE, rest |-> "---"],
      [marker |-> FALSE, rest |-> "*Responded in 1.0s*"]>>

TextAnswer(lines) == [kind |-> "text", lines |-> lines]

\* "Error communicating with Claude: ..."
ErrorAnswer == [kind |-> "error"]

\* ask_ollama has a yield in its body: calling it returns a generator, and
\* with stream=False the generator ends without yielding an item
GeneratorAnswer == [kind |-> "generator", yields |-> <<>>]

\* ---------------------------------------------------------------------
\* query_with_context on one RAG instance, call after call
\* ---------------------------------------------------------------------
MaxDocs == 2

MaxQueries == 2

NearDistance == 3

MidDistance == 41

HugeDistance == 300000

\* vector-search distances, in tenths
QueryDistances == {0, NearDistance, MidDistance, HugeDistance}

QueryCollections == {Names[1], Names[3]}

\* what a retrieved document is: an exact match on a ticket id or a hit
Shapes(b) ==
    {[c |-> c, exact |-> FALSE, d |-> d] :
        c \in QueryCollections, d \in QueryDistances}
    \cup (IF b = "claude"
          THEN {[c |-> Names[3], exact |-> TRUE, d |-> 0]} ELSE {})

QueryDoc(b, sh, i) ==
    IF sh.exact THEN ExactDoc(sh.c)
    ELSE IF b = "claude" THEN SemanticDoc(sh.c, i, sh.d)
    ELSE OllamaDoc(sh.c, i, sh.d)

\* the ranking the backend applies to what the fan-out gathered
Ranked(b, docs) ==
    IF b = "claude" THEN DiverseDocuments(docs)
    ELSE OllamaDiverseDocuments(docs)

\* the document lists a search can return: at most MaxDocs, in ranked order
Retrieved(b) ==
    LET lists == UNION {[1..n -> Shapes(b)] : n \in 0..MaxDocs}
        docs(sl) == [i \in 1..Len(sl) |-> QueryDoc(b, sl[i], i)]
    IN  {l \in {docs(sl) : sl \in lists} : Ranked(b, l) = l}

\* [website_content] + documents; OllamaRAG scrapes no website
AllSources ==
    (IF website THEN <<WebsiteContent>> ELSE <<>>) \o documents

NoSources_Never(sources) == FALSE

\* if not all_sources / if not documents
NoSources(sources) == sources = <<>>

NoInfoResponse(b) ==
    [kind |-> "no_info",
     answer |-> IF b = "claude"
                THEN "No relevant information found. Please check if Milvus is running or provide a valid website URL."
                ELSE "No relevant information found in the database. Please check if Milvus is running and contains data.",
     sources |-> <<>>]

FinalConfidence_FromSources(acs, sc) ==
    IF acs # None
    THEN [score |-> sc.score, level |-> sc.level,
          answer_confidence |-> Round3(acs),
          source_confidence |-> sc, type |-> "dual"]
    ELSE [score |-> sc.score, level |-> sc.level, factors |-> sc.factors,
          type |-> "source_only"]

\* the final confidence: the self-report if there is one, else the sources'
FinalConfidence(acs, sc) ==
    IF acs # None
    THEN [score |-> Round3(acs), level |-> ConfidenceLevel(acs),
          answer_confidence |-> Round3(acs),
          source_confidence |-> sc, type |-> "dual"]
    ELSE [score |-> sc.score, level |-> sc.level, factors |-> sc.factors,
          type |-> "source_only"]

\* no search_all_collections call is modelled while queries are answered
FanOutOff ==
    /\ query_has_id = FALSE
    /\ store = [n \in NameSet |->
                  [num_entities |-> 0, dim |-> ExpectedDim, fault |-> "none",
                   has_ticket |-> FALSE, hits |-> <<>>]]
    /\ pc = "off"
    /\ order = <<>>
    /\ idx = 0
    /\ all_documents = <<>>
    /\ search_summary = <<>>
    /\ calls = {}
    /\ result = <<>>

InitQuery ==
    /\ backend \in {"claude", "ollama"}
    /\ FanOutOff
    /\ QueryIdle
    /\ CompareIdle
    /\ ExtraIdle

\* the caller drops the result it got and turns to its next question;
\* the instance, and with it _last_usage, stays
NextCall ==
    /\ qpc = "returned"
    /\ nqueries < MaxQueries
    /\ qpc' = "idle"
    /\ reachable' = TRUE
    /\ website' = FALSE
    /\ documents' = <<>>
    /\ llm' = [fails |-> FALSE, text |-> <<>>]
    /\ answer' = [kind |-> "none"]
    /\ response' = [kind |-> "none"]
    /\ llm_calls' = 0
    /\ UNCHANGED <<xvars, backend, fvars, cvars, nqueries, last_usage>>

\* a call starts: scrape the website if one is given, search the store
Retrieve ==
    /\ qpc = "idle"
    /\ nqueries < MaxQueries
    /\ nqueries' = nqueries + 1
    /\ reachable' \in BOOLEAN
    /\ website' \in (IF backend = "claude" THEN BOOLEAN ELSE {FALSE})
    /\ documents' \in (IF reachable' THEN Retrieved(backend) ELSE {<<>>})
    /\ qpc' = "retrieved"
    /\ UNCHANGED <<xvars, backend, fvars, cvars, llm, answer, last_usage, llm_calls,
                   response>>

\* nothing to build a context from: return before the LLM is asked
ReturnNoSources ==
    /\ qpc = "retrieved"
    /\ NoSources(AllSources)
    /\ response' = NoInfoResponse(backend)
    /\ qpc' = "returned"
    /\ UNCHANGED <<xvars, backend, fvars, cvars, nqueries, reachable, website,
                   documents, llm, answer, last_usage, llm_calls>>

\* ClaudeRAG.ask_claude: messages.create, the marker block, _last_usage
AskClaude ==
    /\ qpc = "retrieved"
    /\ backend = "claude"
    /\ ~NoSources(AllSources)
    /\ \E c \in Completions :
        /\ llm' = c
        /\ IF c.fails
           THEN /\ answer' = ErrorAnswer
                /\ UNCHANGED last_usage
           ELSE LET p == ParseAnswer(c.text) IN
                /\ answer' = TextAnswer(p.lines \o Footer)
                /\ last_usage' =
                      [set |-> TRUE, query |-> nqueries,
                       answer_confidence |-> p.answer_confidence]
    /\ llm_calls' = llm_calls + 1
    /\ qpc' = "asked"
    /\ UNCHANGED <<xvars, backend, fvars, cvars, nqueries, reachable, website,
                   documents, response>>

\* ClaudeRAG.query_with_context after ask_claude: confidence and result
Respond ==
    /\ qpc = "asked"
    /\ LET sc == CalculateConfidence(AllSources, Len(documents))
           acs == IF last_usage.set THEN last_usage.answer_confidence
                  ELSE None
       IN  response' =
              [kind |-> "answer", answer |-> answer, sources |-> AllSources,
               token_usage |-> last_usage,
               confidence_score |-> FinalConfidence(acs, sc)]
    /\ qpc' = "returned"
    /\ UNCHANGED <<xvars, backend, fvars, cvars, nqueries, reachable, website,
                   documents, llm, answer, last_usage, llm_calls>>

\* OllamaRAG.query_with_context from ask_ollama to the result
OllamaAnswer ==
    /\ qpc = "retrieved"
    /\ backend = "ollama"
    /\ ~NoSources(documents)
    /\ \E c \in Completions :
        /\ llm' = c
        /\ LET p == ParseAnswer(GeneratorAnswer.yields)
               a == IF p.answer_confidence # None THEN TextAnswer(p.lines)
                    ELSE GeneratorAnswer
               sc == CalculateConfidence(documents, Len(documents))
           IN  /\ answer' = a
               /\ response' =
                     [kind |-> "answer", answer |-> a, sources |-> documents,
                      confidence_score |->
                          FinalConfidence(p.answer_confidence, sc)]
    /\ llm_calls' = llm_calls + 1
    /\ qpc' = "returned"
    /\ UNCHANGED <<xvars, backend, fvars, cvars, nqueries, reachable, website,
                   documents, last_usage>>

NextQuery ==
    \/ NextCall
    \/ Retrieve
    \/ ReturnNoSources
    \/ AskClaude
    \/ Respond
    \/ OllamaAnswer

SpecQuery == InitQuery /\ [][NextQuery]_vars

-----------------------------------------------------------------------------
(* Properties of query_with_context *)

Returned == qpc = "returned"

Answered == Returned /\ response.kind = "answer"

\* C11: a call that gathered no source at all (no document, no website
\* content) never invokes the LLM and returns the explicit "No relevant
\* information found" response with an empty sources list.
C11_NoSourcesNoLLM ==
    (qpc # "idle" /\ AllSources = <<>>) =>
        /\ llm_calls = 0
        /\ Returned => /\ response.kind = "no_info"
                       /\ response = NoInfoResponse(backend)
                       /\ response.sources = <<>>

C11_Witness ==
    /\ Returned
    /\ reachable
    /\ AllSources = <<>>
    /\ response.kind = "no_info"
    /\ llm_calls = 0

\* C12: the response of a call that could not reach the vector store
\* differs from the response of a call that searched the store and found
\* nothing (which, by C11, is NoInfoResponse).
C12_ConnectivityFailureDistinct ==
    (Returned /\ ~reachable) => response # NoInfoResponse(backend)

\* the value float() gives for the first marker line of the completion
MarkerValue(text) == ParseFloat(Strip(ConfidenceLine(text).rest))

\* the number of marker lines of a text
MarkerCount(text) == Len(SelectSeq(text, LAMBDA l : l.marker))

\* ClaudeRAG answered and the completion holds a marker that float() accepts
ClaudeSelfReport ==
    /\ Answered
    /\ backend = "claude"
    /\ ~llm.fails
    /\ HasMarker(llm.text)
    /\ MarkerValue(llm.text) # ValueError

\* C13 as stated: with one marker line 'ANSWER_CONFIDENCE: v' whose v is a
\* finite number, ClaudeRAG returns type 'dual' with answer_confidence = v
\* and score = v, the level of v, and the source-quality confidence nested.
C13_DualEqualsMarker ==
    (ClaudeSelfReport /\ MarkerCount(llm.text) = 1
        /\ MarkerValue(llm.text).k = "fin") =>
        LET conf == response.confidence_score IN
        /\ conf.type = "dual"
        /\ conf.answer_confidence = MarkerValue(llm.text)
        /\ conf.score = MarkerValue(llm.text)
        /\ conf.level = ConfidenceLevel(MarkerValue(llm.text))
        /\ conf.source_confidence =
              CalculateConfidence(AllSources, Len(documents))

\* C13, amended: when the first marker line of the completion carries a
\* value v that float() accepts, ClaudeRAG returns type 'dual' with
\* answer_confidence and score equal to v rounded to three decimals, the
\* level being the threshold label of v itself, and the source-quality
\* confidence of the call nested as source_confidence.
C13_DualFromMarker ==
    ClaudeSelfReport =>
        LET conf == response.confidence_score
            v == MarkerValue(llm.text)
        IN  /\ conf.type = "dual"
            /\ conf.answer_confidence = Round3(v)
            /\ conf.score = Round3(v)
            /\ conf.level = ConfidenceLevel(v)
            /\ conf.source_confidence =
                  CalculateConfidence(AllSources, Len(documents))

C13_Witness ==
    /\ ClaudeSelfReport
    /\ llm.text = <<PlainLine, MarkerLine(" 0.7996")>>
    /\ response.confidence_score.type = "dual"
    /\ response.confidence_score.answer_confidence = Fin(8000)
    /\ response.confidence_score.level = "High"

\* the completion came back without a usable self-report
NoSelfReport ==
    /\ ~llm.fails
    /\ llm.text # <<>>
    /\ ~HasMarker(llm.text) \/ MarkerValue(llm.text) = ValueError

\* the source-quality confidence of the running call, returned as the result
SourceOnly ==
    LET sc == CalculateConfidence(AllSources, Len(documents)) IN
    [score |-> sc.score, level |-> sc.level, factors |-> sc.factors,
     type |-> "source_only"]

\* C14: a completion with no marker line, or with a marker line whose value
\* float() rejects, raises nothing: ask_claude records answer_confidence None
\* and leaves the text as it is, and the call returns exactly the
\* source-quality confidence with type 'source_only' and no
\* answer_confidence field.
C14_SourceOnlyFallback ==
    NoSelfReport =>
        /\ qpc = "asked" =>
              /\ last_usage.set
              /\ last_usage.answer_confidence = None
              /\ answer = TextAnswer(llm.text \o Footer)
        /\ Answered =>
              /\ response.confidence_score = SourceOnly
              /\ "answer_confidence" \notin DOMAIN response.confidence_score

C14_Witness ==
    /\ Answered
    /\ backend = "claude"
    /\ llm.text = <<PlainLine, MarkerLine(" high")>>
    /\ response.confidence_score.type = "source_only"
    /\ response.answer = TextAnswer(llm.text \o Footer)

\* C15: when the completion of the Ollama collaborator ends with the marker
\* line 'ANSWER_CONFIDENCE: 0.73', OllamaRAG returns type 'dual' with
\* answer_confidence 0.73 and, as the answer, the completion text without
\* the marker line.
C15_OllamaDualFromMarker ==
    (Answered /\ backend = "ollama"
        /\ llm = [fails |-> FALSE, text |-> <<PlainLine, MarkerLine(" 0.73")>>])
    =>  /\ response.confidence_score.type = "dual"
        /\ response.confidence_score.answer_confidence = Fin(7300)
        /\ response.answer = TextAnswer(<<PlainLine>>)

\* C16: the score of the final confidence of every answered call is a
\* number within [0, 1], whatever the completion and the documents.
C16_ScoreInUnitInterval ==
    Answered =>
        /\ response.confidence_score.score.k = "fin"
        /\ response.confidence_score.score.n >= 0
        /\ response.confidence_score.score.n <= ScoreScale

\* level is the threshold label of the score reported next to it
LevelMatchesScore(conf) == conf.level = ConfidenceLevel(conf.score)

\* C17: in the confidence returned for a non-empty source set, the level is
\* the threshold label of the reported score; this holds of the final
\* result and of the result of calculate_confidence nested in it.
C17_LevelOfReportedScore ==
    (Answered /\ AllSources # <<>>) =>
        /\ LevelMatchesScore(response.confidence_score)
        /\ response.confidence_score.type = "dual" =>
              LevelMatchesScore(response.confidence_score.source_confidence)

-----------------------------------------------------------------------------
(* calculate_confidence on two source lists *)

MaxSources == 3

CompareDistances == <<0, NearDistance, MidDistance>>

\* the k-th kind of source: a collection and a distance
CompareShape(k) ==
    [c |-> IF k <= Len(CompareDistances) THEN Names[1] ELSE Names[3],
     exact |-> FALSE,
     d |-> CompareDistances[((k - 1) % Len(CompareDistances)) + 1]]

\* the non-empty source lists of at most MaxSources documents; the function
\* does not depend on the order of its sources, so one order stands for all
SourceLists ==
    LET kinds == 1..(2 * Len(CompareDistances))
        picks == UNION {[1..n -> kinds] : n \in 1..MaxSources}
        sorted(f) == \A i \in 1..(Len(f) - 1) : f[i] <= f[i + 1]
    IN  {[i \in 1..Len(f) |-> QueryDoc(backend, CompareShape(f[i]), i)] :
            f \in {g \in picks : sorted(g)}}

InitConfidence ==
    /\ backend \in {"claude", "ollama"}
    /\ FanOutOff
    /\ QueryIdle
    /\ ExtraIdle
    /\ cmp \in SourceLists \X SourceLists
    /\ cmp_conf = <<>>

\* calculate_confidence(documents, len(documents)) on each of the two lists
Calculate ==
    /\ cmp # <<>>
    /\ cmp_conf = <<>>
    /\ cmp_conf' = <<CalculateConfidence(cmp[1], Len(cmp[1])),
                     CalculateConfidence(cmp[2], Len(cmp[2]))>>
    /\ UNCHANGED <<xvars, backend, fvars, qvars, cmp>>

NextConfidence == Calculate

SpecConfidence == InitConfidence /\ [][NextConfidence]_vars

\* both lists have been scored, with the same count and the same diversity
Comparable ==
    /\ cmp_conf # <<>>
    /\ Len(cmp[1]) = Len(cmp[2])
    /\ UniqueSources(cmp[1]) = UniqueSources(cmp[2])

\* C18 as stated: between two source lists with the same document count and
\* the same number of distinct collections, the one with more sources of
\* score > 0.8 (0 up to 3) never has the lower confidence total.
C18_MonotoneInHighQuality ==
    (Comparable /\ HighQualityCount(cmp[1]) < HighQualityCount(cmp[2])
        /\ HighQualityCount(cmp[2]) <= HighQualityCap)
    => cmp_conf[2].score.n >= cmp_conf[1].score.n

\* C18, amended: between two source lists with the same document count, the
\* same number of distinct collections and a mean score that is not lower
\* in the second, a number of sources with score > 0.8 that is not lower
\* in the second (0 up to 3) never gives it the lower confidence total.
C18_MonotoneAtFixedQuality ==
    (Comparable /\ SumScores(cmp[1]) <= SumScores(cmp[2])
        /\ HighQualityCount(cmp[1]) <= HighQualityCount(cmp[2])
        /\ HighQualityCount(cmp[2]) <= HighQualityCap)
    => cmp_conf[2].score.n >= cmp_conf[1].score.n

C18_Witness ==
    /\ Comparable
    /\ SumScores(cmp[1]) <= SumScores(cmp[2])
    /\ HighQualityCount(cmp[1]) = 0
    /\ HighQualityCount(cmp[2]) = HighQualityCap
    /\ cmp_conf[2].score.n > cmp_conf[1].score.n

-----------------------------------------------------------------------------
(* Properties of the retrieved documents and of successive calls *)

\* C19: every retrieved vector-search document has a score in (0, 1], for
\* every distance >= 0 including very large ones, and every exact match
\* has score exactly 1.0.
C19_ScoreBounds ==
    \A i \in 1..Len(documents) :
        IF documents[i].match_type = "exact"
        THEN documents[i].score = ScoreScale
        ELSE documents[i].score > 0 /\ documents[i].score <= ScoreScale

\* C20: what a ClaudeRAG call returns comes from its own LLM response: the
\* token usage it reports is the one recorded during this call, and a call
\* whose LLM request failed reports no token usage and no answer
\* confidence (its confidence type is 'source_only').
C20_CallsIndependent ==
    (Answered /\ backend = "claude") =>
        /\ response.token_usage.set => response.token_usage.query = nqueries
        /\ llm.fails =>
              /\ ~response.token_usage.set
              /\ response.confidence_score.type = "source_only"

-----------------------------------------------------------------------------
(* Schema resolution and hit normalization of ClaudeRAG.search_milvus,
   for the schemas a store can hold *)

MaxFields == 3

FieldUniverse ==
    {"id", "source_type", "title", "file_path", "content", "action_type",
     "endpoint", "username", "persona_description", "repo_name",
     "total_files_found", "text", "embedding"}

ActionLogFields ==
    <<"id", "timestamp", "action_type", "endpoint", "parameters", "status",
      "duration_ms", "result_summary", "error_message", "source", "metadata",
      "embedding">>

PersonaFields ==
    <<"id", "username", "display_name", "role", "statistics", "patterns",
      "relationships", "persona_description", "last_updated", "embedding">>

PrTrackingFields ==
    <<"id", "repository", "pr_number", "pr_title", "status", "error_message",
      "fetched_at", "collection_name">>

\* the schemas of at most MaxFields distinct fields, and those of the application
Schemas ==
    LET small == UNION {[1..n -> FieldUniverse] : n \in 0..MaxFields}
        distinct(f) == \A i, j \in 1..Len(f) : i # j => f[i] # f[j]
    IN  {f \in small : distinct(f)}
        \cup {StandardFields, ActionLogFields, PersonaFields, PrTrackingFields,
              StandardFields \o <<"file_path", "action_type", "endpoint">>}

\* the if/elif chain that picks how a hit becomes a document
Normalization(output_fields) ==
    LET has(f) == f \in Range(output_fields)
    IN  IF has("source_type") THEN "standard"
        ELSE IF has("file_path") THEN "codebase"
        ELSE IF has("action_type") THEN "action_log"
        ELSE IF has("username") THEN "persona"
        ELSE IF has("repo_name") /\ has("total_files_found") THEN "audit"
        ELSE IF output_fields = <<>> THEN "IndexError"
        ELSE "fallback"

\* some requested field is not a field of the schema
UnknownRequested(schema, output_fields) ==
    \E i \in 1..Len(output_fields) : output_fields[i] \notin Range(schema)

InitSchema ==
    /\ backend = "claude"
    /\ FanOutOff
    /\ QueryIdle
    /\ CompareIdle
    /\ TopKIdle
    /\ FetchIdle
    /\ CrawlIdle
    /\ s_schema \in Schemas
    /\ s_pc = "schema"
    /\ s_fields = <<>>
    /\ s_result = [status |-> "none"]

\* available_fields and the rule chain that sets output_fields
ResolveSchema ==
    /\ s_pc = "schema"
    /\ s_fields' = ResolveFields(s_schema)
    /\ s_pc' = "resolved"
    /\ UNCHANGED <<backend, fvars, qvars, cvars, kvars, pvars, wvars, s_schema, s_result>>

\* the store refuses a request that names a field it does not have; the
\* outer except clause turns the exception into an empty result
StoreRejects ==
    /\ s_pc = "resolved"
    /\ UnknownRequested(s_schema, s_fields)
    /\ s_result' = [status |-> "store_error", requested |-> s_fields]
    /\ s_pc' = "searched"
    /\ UNCHANGED <<backend, fvars, qvars, cvars, kvars, pvars, wvars, s_schema, s_fields>>

\* the store answers with a hit (a store with dynamic fields accepts any
\* field name) and the hit is made a document
NormalizeHit ==
    /\ s_pc = "resolved"
    /\ LET n == Normalization(s_fields) IN
       s_result' = [status |-> IF n = "IndexError" THEN "IndexError" ELSE "ok",
                    requested |-> s_fields, rule |-> n]
    /\ s_pc' = "searched"
    /\ UNCHANGED <<backend, fvars, qvars, cvars, kvars, pvars, wvars, s_schema, s_fields>>

NextSchema ==
    \/ ResolveSchema
    \/ StoreRejects
    \/ NormalizeHit

SpecSchema == InitSchema /\ [][NextSchema]_vars

Resolved == s_pc \in {"resolved", "searched"}

\* the signature rules, in the order the resolver is said to apply them
Satisfies(schema, r) ==
    LET has(f) == f \in Range(schema)
    IN  CASE r = 1 -> has("source_type")
          [] r = 2 -> has("file_path") /\ has("content")
          [] r = 3 -> has("action_type") /\ has("endpoint")
          [] r = 4 -> has("username") /\ has("persona_description")
          [] r = 5 -> has("repo_name") /\ has("total_files_found")

Rules == 1..5

Matched(schema) == \E r \in Rules : Satisfies(schema, r)

EarliestRule(schema) ==
    CHOOSE r \in Rules :
        Satisfies(schema, r) /\ \A q \in 1..(r - 1) : ~Satisfies(schema, q)

RuleFields ==
    << <<"source_type", "source_id", "title", "content", "metadata", "url">>,
       <<"file_path", "file_name", "language", "content", "content_summary",
         "functions", "classes", "repo_name", "github_url">>,
       <<"action_type", "endpoint", "parameters", "status", "result_summary",
         "error_message", "metadata">>,
       <<"username", "display_name", "role", "persona_description",
         "statistics", "patterns">>,
       <<"repo_name", "repo_path", "total_files_found", "files_analyzed",
         "status", "processing_time_seconds">> >>

RuleNormalization ==
    <<"standard", "codebase", "action_log", "persona", "audit">>

\* C21: a schema that matches no signature rule, a schema of one field or
\* without any generic field name included, gets a non-empty list of output
\* fields and the search raises nothing.
C21_UnmatchedSchemaNonEmpty ==
    (Resolved /\ ~Matched(s_schema)) =>
        /\ s_fields # <<>>
        /\ s_result.status # "IndexError"

\* C25: the rules are applied in the order source_type; file_path and
\* content; action_type and endpoint; username and persona_description;
\* repo_name and total_files_found: a schema that satisfies one or several
\* rules gets the field list of the earliest rule it satisfies, and a hit
\* is normalized by that rule's normalization.
C25_FirstRuleWins ==
    (Resolved /\ Matched(s_schema)) =>
        /\ s_fields = RuleFields[EarliestRule(s_schema)]
        /\ s_result.status = "ok" =>
              s_result.rule = RuleNormalization[EarliestRule(s_schema)]

C25_Witness ==
    /\ s_pc = "searched"
    /\ Satisfies(s_schema, 1)
    /\ Satisfies(s_schema, 2)
    /\ Satisfies(s_schema, 3)
    /\ ~UnknownRequested(s_schema, s_fields)
    /\ s_result.status = "ok"
    /\ s_result.rule = "standard"

\* C26: every output field requested from the store, in the exact lookup
\* and in the vector search, is a field of the collection's schema.
C26_RequestedFieldsInSchema ==
    Resolved => ~UnknownRequested(s_schema, s_fields)

-----------------------------------------------------------------------------
(* Properties of the documents gathered by the fan-out *)

\* a document as the fusion stage expects it
WellFormed(d) ==
    /\ d.collection \in NameSet
    /\ d \in StoreDocs(d.collection)
    /\ d.score >= 0
    /\ d.score <= ScoreScale
    /\ d.match_type \in {"exact", "semantic"}

\* C22: in both backends, every document gathered for the interleaving
\* stage carries the collection it was retrieved from, a score in [0, 1]
\* and a match_type that is exact or semantic.
C22_GatheredWellFormed ==
    \A i \in 1..Len(all_documents) : WellFormed(all_documents[i])

\* the place of a collection name in lexicographic order
NameIndex(c) == CHOOSE k \in 1..Len(Names) : Names[k] = c

\* how often d occurs in seq
Occurrences(seq, d) == Cardinality({i \in 1..Len(seq) : seq[i] = d})

\* seq holds the documents of docs, each as often as docs does
IsPermutation(seq, docs) ==
    /\ Len(seq) = Len(docs)
    /\ \A i \in 1..Len(docs) :
          Occurrences(seq, docs[i]) = Occurrences(docs, docs[i])

\* the rank of the semantic document seq[i] among those of its collection
RankIn(seq, i) ==
    Cardinality({j \in 1..i : /\ seq[j].match_type # "exact"
                              /\ seq[j].collection = seq[i].collection})

\* the reference fusion order: exact matches first by score descending, then
\* semantic documents by (rank in their collection's score-descending list,
\* collection name)
FusionOrdered(seq) ==
    \A i, j \in 1..Len(seq) :
        i < j =>
          IF seq[i].match_type = "exact"
          THEN seq[j].match_type = "exact" => seq[i].score >= seq[j].score
          ELSE /\ seq[j].match_type # "exact"
               /\ seq[i].collection = seq[j].collection =>
                     seq[i].score >= seq[j].score
               /\ \/ RankIn(seq, i) < RankIn(seq, j)
                  \/ /\ RankIn(seq, i) = RankIn(seq, j)
                     /\ NameIndex(seq[i].collection) < NameIndex(seq[j].collection)

\* C24: the sequence ClaudeRAG.search_all_collections returns is the
\* reference fusion of the gathered documents: a permutation of them, the
\* exact matches first by score descending, then the semantic documents by
\* rank within their collection and collection name; nothing gathered gives
\* the empty sequence.
C24_ReferenceFusion ==
    (pc = "done" /\ backend = "claude") =>
        /\ IsPermutation(result, all_documents)
        /\ FusionOrdered(result)
        /\ all_documents = <<>> => result = <<>>

C24_Witness ==
    /\ pc = "done"
    /\ backend = "claude"
    /\ Len(result) = 5
    /\ result[1].match_type = "exact"
    /\ result[2].collection = Names[1]
    /\ result[3].collection = Names[2]
    /\ result[4].collection = Names[1]
    /\ result[5].collection = Names[2]
    /\ result[2].score < result[3].score

-----------------------------------------------------------------------------
(* The retrieval depth of query_with_context: from top_k to the number of
   documents each collection contributes *)

MaxTopK == 8

MaxAvailable == 9

MinTopK == 7

Max(a, b) == IF a >= b THEN a ELSE b

\* enhanced_top_k = max(top_k, 7)
EnhancedTopK(top_k) == Max(top_k, MinTopK)

\* a search with limit = n returns the n nearest rows, or all if fewer
HitsReturned(limit, available) == Min(limit, available)

InitTopK ==
    /\ backend \in {"claude", "ollama"}
    /\ FanOutOff
    /\ QueryIdle
    /\ CompareIdle
    /\ SchemaIdle
    /\ FetchIdle
    /\ CrawlIdle
    /\ k_top \in 1..MaxTopK
    /\ k_avail \in [QueryCollections -> 0..MaxAvailable]
    /\ k_pc = "called"
    /\ k_limit = 0
    /\ k_counts = [c \in {} |-> 0]

\* query_with_context raises the retrieval depth before it searches
EnhanceTopK ==
    /\ k_pc = "called"
    /\ k_limit' = EnhancedTopK(k_top)
    /\ k_pc' = "searching"
    /\ UNCHANGED <<backend, fvars, qvars, cvars, svars, pvars, wvars, k_top, k_avail, k_counts>>

\* search_milvus(query, c, top_k_per_collection): collection.search(limit=top_k)
SearchWithLimit ==
    /\ k_pc = "searching"
    /\ \E c \in QueryCollections \ DOMAIN k_counts :
          k_counts' = [x \in DOMAIN k_counts \cup {c} |->
                          IF x = c THEN HitsReturned(k_limit, k_avail[c])
                          ELSE k_counts[x]]
    /\ UNCHANGED <<backend, fvars, qvars, cvars, svars, pvars, wvars, k_top, k_avail, k_pc,
                   k_limit>>

\* every collection has been searched: the documents are returned
ReturnDocuments ==
    /\ k_pc = "searching"
    /\ DOMAIN k_counts = QueryCollections
    /\ k_pc' = "returned"
    /\ UNCHANGED <<backend, fvars, qvars, cvars, svars, pvars, wvars, k_top, k_avail, k_limit,
                   k_counts>>

NextTopK ==
    \/ EnhanceTopK
    \/ SearchWithLimit
    \/ ReturnDocuments

SpecTopK == InitTopK /\ [][NextTopK]_vars

\* C23: a call made with top_k = k returns at most k documents of any one
\* collection, for every k >= 1, when the store returns at most limit hits.
C23_AtMostTopKPerCollection ==
    \A c \in DOMAIN k_counts : k_counts[c] <= k_top

-----------------------------------------------------------------------------
(* /fetch_repo_prs: requests for one repository, each running
   process_single_pr for every listed PR on a pool of worker threads.  The
   tracker collection and the document collection are shared by all requests
   and are reachable throughout. *)

MaxPRs == 2

MaxWorkers == 5

\* the PR numbers the repository's listing returns
PRs == 1..MaxPRs

\* the requests that may run one after the other or overlap
Requests == {"first", "second"}

TaskIds == Requests \X PRs

\* total_prs = len(all_pr_numbers)
total_prs == Cardinality(PRs)

ZeroCounters == [stored |-> 0, failed |-> 0, skipped |-> 0]

\* the tasks of a request that occupy a worker thread
Running(r) ==
    {p \in PRs : p_task[<<r, p>>] \in {"fetching", "storing", "tracking"}}

\* is_pr_already_fetched: a tracked record of this PR with status 'success'
IsPrAlreadyFetched(pr_number) ==
    \E rec \in p_tracked : rec.pr_number = pr_number /\ rec.status = "success"

\* track_pr_fetch: one more record in the tracker collection
TrackPrFetch(pr_number, status) ==
    p_tracked \cup {[pr_number |-> pr_number, status |-> status]}

\* with counter_lock: skipped_count += 1 (and only that)
SkippedCounters_OnlySkipped(c) == [c EXCEPT !.skipped = @ + 1]

\* with counter_lock: skipped_count += 1; stored_count += 1
SkippedCounters(c) == [c EXCEPT !.skipped = @ + 1, !.stored = @ + 1]

\* with counter_lock: stored_count += 1
StoredCounters(c) == [c EXCEPT !.stored = @ + 1]

\* with counter_lock: failed_count += 1
FailedCounters(c) == [c EXCEPT !.failed = @ + 1]

InitFetch ==
    /\ backend = "claude"
    /\ FanOutOff
    /\ QueryIdle
    /\ CompareIdle
    /\ SchemaIdle
    /\ TopKIdle
    /\ CrawlIdle
    /\ p_req = [r \in Requests |-> "idle"]
    /\ p_task = [t \in TaskIds |-> "none"]
    /\ p_docs = [p \in PRs |-> 0]
    /\ p_tracked = {}
    /\ p_count = [r \in Requests |-> ZeroCounters]

FetchFrame == UNCHANGED <<backend, fvars, qvars, cvars, svars, kvars, wvars>>

\* the request lists the PRs, zeroes its counters and submits one task per PR
SubmitAll(r) ==
    /\ p_req[r] = "idle"
    /\ p_req' = [p_req EXCEPT ![r] = "running"]
    /\ p_task' = [t \in TaskIds |-> IF t[1] = r THEN "queued" ELSE p_task[t]]
    /\ p_count' = [p_count EXCEPT ![r] = ZeroCounters]
    /\ UNCHANGED <<p_docs, p_tracked>>
    /\ FetchFrame

\* a free worker takes the task and finds the PR already fetched
SkipFetched(r, p) ==
    /\ p_task[<<r, p>>] = "queued"
    /\ Cardinality(Running(r)) < MaxWorkers
    /\ IsPrAlreadyFetched(p)
    /\ p_count' = [p_count EXCEPT ![r] = SkippedCounters(@)]
    /\ p_task' = [p_task EXCEPT ![<<r, p>>] = "skipped"]
    /\ UNCHANGED <<p_req, p_docs, p_tracked>>
    /\ FetchFrame

\* a free worker takes the task and finds no 'success' record of the PR
BeginFetch(r, p) ==
    /\ p_task[<<r, p>>] = "queued"
    /\ Cardinality(Running(r)) < MaxWorkers
    /\ ~IsPrAlreadyFetched(p)
    /\ p_task' = [p_task EXCEPT ![<<r, p>>] = "fetching"]
    /\ UNCHANGED <<p_req, p_docs, p_tracked, p_count>>
    /\ FetchFrame

\* fetch_github_pr returned the PR data
FetchOk(r, p) ==
    /\ p_task[<<r, p>>] = "fetching"
    /\ p_task' = [p_task EXCEPT ![<<r, p>>] = "storing"]
    /\ UNCHANGED <<p_req, p_docs, p_tracked, p_count>>
    /\ FetchFrame

\* the task records a failure and counts it: fetch_github_pr returned an
\* error, store_document returned False, or an exception was raised while
\* fetching or while building the content
TaskFails(r, p) ==
    /\ p_task[<<r, p>>] \in {"fetching", "storing"}
    /\ p_tracked' = TrackPrFetch(p, "failed")
    /\ p_count' = [p_count EXCEPT ![r] = FailedCounters(@)]
    /\ p_task' = [p_task EXCEPT ![<<r, p>>] = "failed"]
    /\ UNCHANGED <<p_req, p_docs>>
    /\ FetchFrame

\* store_document inserted the PR's document; the task counts it
StoreOk(r, p) ==
    /\ p_task[<<r, p>>] = "storing"
    /\ p_docs' = [p_docs EXCEPT ![p] = @ + 1]
    /\ p_count' = [p_count EXCEPT ![r] = StoredCounters(@)]
    /\ p_task' = [p_task EXCEPT ![<<r, p>>] = "tracking"]
    /\ UNCHANGED <<p_req, p_tracked>>
    /\ FetchFrame

\* track_pr_fetch(..., "success", ...) after the document was stored
TrackSuccess(r, p) ==
    /\ p_task[<<r, p>>] = "tracking"
    /\ p_tracked' = TrackPrFetch(p, "success")
    /\ p_task' = [p_task EXCEPT ![<<r, p>>] = "success"]
    /\ UNCHANGED <<p_req, p_docs, p_count>>
    /\ FetchFrame

\* the with-block of the executor ends when every task has returned
PoolFinished(r) ==
    /\ p_req[r] = "running"
    /\ \A p \in PRs : p_task[<<r, p>>] \in {"skipped", "success", "failed"}
    /\ p_req' = [p_req EXCEPT ![r] = "done"]
    /\ UNCHANGED <<p_task, p_docs, p_tracked, p_count>>
    /\ FetchFrame

NextFetch ==
    \/ \E r \in Requests : SubmitAll(r)
    \/ \E r \in Requests, p \in PRs : SkipFetched(r, p)
    \/ \E r \in Requests, p \in PRs : BeginFetch(r, p)
    \/ \E r \in Requests, p \in PRs : FetchOk(r, p)
    \/ \E r \in Requests, p \in PRs : TaskFails(r, p)
    \/ \E r \in Requests, p \in PRs : StoreOk(r, p)
    \/ \E r \in Requests, p \in PRs : TrackSuccess(r, p)
    \/ \E r \in Requests : PoolFinished(r)

SpecFetch == InitFetch /\ [][NextFetch]_vars

\* C27: across any sequence or overlap of requests for the same repository a
\* PR is stored in the document collection at most once.
C27_StoredAtMostOnce ==
    \A p \in DOMAIN p_docs : p_docs[p] <= 1

\* C28: when a request's worker pool has finished, stored_count +
\* failed_count equals total_prs and skipped_count <= stored_count.
C28_EachPrCountedOnce ==
    \A r \in DOMAIN p_req :
        p_req[r] = "done" =>
            /\ p_count[r].stored + p_count[r].failed = total_prs
            /\ p_count[r].skipped <= p_count[r].stored

\* a finished request that skipped one PR and failed on another
C28_Witness ==
    \E r \in DOMAIN p_req :
        /\ p_req[r] = "done"
        /\ p_count[r].skipped >= 1
        /\ p_count[r].failed >= 1

-----------------------------------------------------------------------------
(* WebCrawler.crawl: a breadth-first crawl of one site, limited by max_pages
   and max_depth *)

MaxLinks == 2

MaxPagesLimit == 4

MaxDepthLimit == 2

\* an href as it stands in a page: the path below the site's root, whether it
\* ends with a slash, whether it carries a fragment
Href(path, slash, fragment) ==
    [path |-> path, slash |-> slash, fragment |-> fragment]

\* the hrefs the pages of the site may carry
Hrefs ==
    { Href("", TRUE, FALSE), Href("a", TRUE, FALSE), Href("b", FALSE, TRUE),
      Href("doc.pdf", FALSE, FALSE) }

\* normalize_url: drop the fragment; drop a trailing slash unless the URL is
\* the root of the site
NormalizeUrl(u) ==
    [u EXCEPT !.fragment = FALSE,
              !.slash = IF u.path = "" THEN u.slash ELSE FALSE]

\* the paths is_valid_url rejects by their extension
SkipExtensionPaths == {"doc.pdf"}

\* is_valid_url, for links of the same domain
IsValidUrl(u) == u.path \notin SkipExtensionPaths

\* the URLs a crawl may request
Urls == {NormalizeUrl(u) : u \in Hrefs}

start_url == NormalizeUrl(Href("", TRUE, FALSE))

\* the anchors of one page: at most MaxLinks hrefs
LinkSets == {ls \in SUBSET Hrefs : Cardinality(ls) <= MaxLinks}

\* the link graphs of the site; cycles and self-links included
Sites == [{u \in Urls : IsValidUrl(u)} -> LinkSets]

\* the orders in which the anchors of a page may stand in its document
Orderings(ls) ==
    {o \in [1..Cardinality(ls) -> ls] : \A i, j \in DOMAIN o : o[i] = o[j] => i = j}

\* extract_links: the normalised target of every anchor, in document order
ExtractLinks(anchors) == [i \in DOMAIN anchors |-> NormalizeUrl(anchors[i])]

\* for link in links: queue (link, depth + 1) unless it is visited, invalid or
\* already queued at that depth
RECURSIVE Enqueue(_, _, _, _)
Enqueue(queue, links, depth, visited) ==
    IF links = <<>> THEN queue
    ELSE LET link == Head(links)
             fresh == /\ link \notin visited
                      /\ IsValidUrl(link)
                      /\ <<link, depth + 1>> \notin Range(queue)
         IN Enqueue(IF fresh THEN Append(queue, <<link, depth + 1>>) ELSE queue,
                    Tail(links), depth, visited)

\* while self.to_visit and self.pages_crawled <= self.max_pages
LoopContinues_Inclusive == to_visit /= <<>> /\ pages_crawled <= max_pages

\* while self.to_visit and self.pages_crawled < self.max_pages
LoopContinues == to_visit /= <<>> /\ pages_crawled < max_pages

\* the queue is read without being shortened
Popped_Kept(queue) == queue

\* self.to_visit after popleft()
Popped(queue) == Tail(queue)

InitCrawl ==
    /\ backend = "claude"
    /\ FanOutOff
    /\ QueryIdle
    /\ CompareIdle
    /\ SchemaIdle
    /\ TopKIdle
    /\ FetchIdle
    /\ site \in Sites
    /\ max_pages \in 1..MaxPagesLimit
    /\ max_depth \in (-1)..MaxDepthLimit
    /\ visited_urls = {}
    /\ to_visit = <<>>
    /\ pages_crawled = 0
    /\ crawl_pc = "constructed"
    /\ fetched = <<>>
    /\ pages_stored = 0
    /\ pages_failed = 0

CrawlFrame == UNCHANGED <<backend, fvars, qvars, cvars, svars, kvars, pvars>>

\* crawl(start_url): the start URL is queued at depth 0
StartCrawl ==
    /\ crawl_pc = "constructed"
    /\ to_visit' = Append(to_visit, <<start_url, 0>>)
    /\ crawl_pc' = "crawling"
    /\ UNCHANGED <<site, max_pages, max_depth, visited_urls, pages_crawled,
                   fetched, pages_stored, pages_failed>>
    /\ CrawlFrame

\* one pass of the loop: the popped URL was visited before
SkipVisited ==
    /\ crawl_pc = "crawling"
    /\ LoopContinues
    /\ Head(to_visit)[1] \in visited_urls
    /\ to_visit' = Popped(to_visit)
    /\ UNCHANGED <<site, max_pages, max_depth, visited_urls, pages_crawled,
                   crawl_pc, fetched, pages_stored, pages_failed>>
    /\ CrawlFrame

\* one pass of the loop: the popped URL lies too deep
SkipTooDeep ==
    /\ crawl_pc = "crawling"
    /\ LoopContinues
    /\ Head(to_visit)[1] \notin visited_urls
    /\ Head(to_visit)[2] > max_depth
    /\ to_visit' = Popped(to_visit)
    /\ UNCHANGED <<site, max_pages, max_depth, visited_urls, pages_crawled,
                   crawl_pc, fetched, pages_stored, pages_failed>>
    /\ CrawlFrame

\* one pass of the loop: the page is fetched, stored (or not) and its links
\* are queued
CrawlPage ==
    /\ crawl_pc = "crawling"
    /\ LoopContinues
    /\ LET current_url == Head(to_visit)[1]
           depth == Head(to_visit)[2]
       IN /\ current_url \notin visited_urls
          /\ depth <= max_depth
          /\ visited_urls' = visited_urls \cup {current_url}
          /\ pages_crawled' = pages_crawled + 1
          /\ fetched' = Append(fetched, current_url)
          /\ \E stored \in BOOLEAN :
                /\ pages_stored' = IF stored THEN pages_stored + 1 ELSE pages_stored
                /\ pages_failed' = IF stored THEN pages_failed ELSE pages_failed + 1
          /\ IF depth < max_depth
             THEN \E anchors \in Orderings(site[current_url]) :
                     to_visit' = Enqueue(Popped(to_visit), ExtractLinks(anchors),
                                         depth, visited_urls')
             ELSE to_visit' = Popped(to_visit)
    /\ UNCHANGED <<site, max_pages, max_depth, crawl_pc>>
    /\ CrawlFrame

\* one pass of the loop: fetch_page returns None
FetchFails ==
    /\ crawl_pc = "crawling"
    /\ LoopContinues
    /\ LET current_url == Head(to_visit)[1]
           depth == Head(to_visit)[2]
       IN /\ current_url \notin visited_urls
          /\ depth <= max_depth
          /\ visited_urls' = visited_urls \cup {current_url}
          /\ pages_crawled' = pages_crawled + 1
          /\ fetched' = Append(fetched, current_url)
          /\ pages_failed' = pages_failed + 1
          /\ to_visit' = Popped(to_visit)
    /\ UNCHANGED <<site, max_pages, max_depth, crawl_pc, pages_stored>>
    /\ CrawlFrame

\* the loop ends and crawl returns its statistics
ReturnStatistics ==
    /\ crawl_pc = "crawling"
    /\ ~LoopContinues
    /\ crawl_pc' = "returned"
    /\ UNCHANGED <<site, max_pages, max_depth, visited_urls, to_visit,
                   pages_crawled, fetched, pages_stored, pages_failed>>
    /\ CrawlFrame

NextCrawl ==
    \/ StartCrawl
    \/ SkipVisited
    \/ SkipTooDeep
    \/ CrawlPage
    \/ FetchFails
    \/ ReturnStatistics

SpecCrawl == InitCrawl /\ [][NextCrawl]_vars

\* crawl is one sequential loop: whenever a step is possible it is taken
SpecCrawlFair == SpecCrawl /\ WF_vars(NextCrawl)

\* the URLs at most k links away from the start URL in the site's link graph
RECURSIVE Within(_)
Within(k) ==
    IF k < 0 THEN {}
    ELSE IF k = 0 THEN {start_url}
    ELSE LET near == Within(k - 1)
         IN near \cup {NormalizeUrl(h) : h \in UNION {site[u] : u \in near \cap DOMAIN site}}

\* C29: during crawl the number of pages fetched is at most max_pages, every
\* fetched URL is at link depth <= max_depth from the start URL, and no URL is
\* fetched more than once.
C29_CrawlWithinLimits ==
    crawl_pc \in {"crawling", "returned"} =>
        /\ Len(fetched) <= max_pages
        /\ pages_crawled <= max_pages
        /\ \A i \in DOMAIN fetched : fetched[i] \in Within(max_depth)
        /\ \A i, j \in DOMAIN fetched : fetched[i] = fetched[j] => i = j

\* max_pages pages were fetched, the last of them exactly max_depth >= 2
\* links deep, on a site where another page links back to the start URL
C29_Witness ==
    /\ crawl_pc = "crawling"
    /\ max_depth >= 2
    /\ Len(fetched) = max_pages
    /\ fetched[Len(fetched)] \notin Within(max_depth - 1)
    /\ \E u \in DOMAIN site : u /= start_url /\ Href("", TRUE, FALSE) \in site[u]

\* C30: crawl terminates for every link graph, cyclic ones included: the loop
\* eventually exits and the statistics are returned.
C30_CrawlTerminates == <>(crawl_pc = "returned")

\* crawl has returned from a site whose pages link to each other and to
\* themselves, with a URL it had visited still met in the queue
C30_Witness ==
    /\ crawl_pc = "returned"
    /\ pages_crawled >= 2
    /\ \E u, v \in DOMAIN site :
          /\ u /= v
          /\ \E h \in site[u] : NormalizeUrl(h) = v
          /\ \E h \in site[v] : NormalizeUrl(h) = u
          /\ \E h \in site[v] : NormalizeUrl(h) = v
          /\ {u, v} \subseteq visited_urls

====
